---------------------------- MODULE Spec2Model ----------------------------
(***************************************************************************)
(* A model of torchdrug/models/infograph.py: the forward passes of         *)
(* InfoGraph and MultiviewContrast, seen from the training loop that owns  *)
(* the loss accumulator (all_loss) and the metric mapping (metric).        *)
(*                                                                         *)
(* One module object is constructed (Init) and then called repeatedly.     *)
(* Every statement of forward that calls a collaborator, writes the        *)
(* metric mapping or subtracts from the accumulator is one action, so that *)
(* an exception raised in the middle of a call leaves the state the        *)
(* statements before it produced.  Tensors are modelled by their number of *)
(* rows and by where they come from; mutual-information scores, which the  *)
(* estimators compute from learned parameters, are integers drawn from a   *)
(* small range.                                                            *)
(***************************************************************************)
EXTENDS Integers, Sequences, FiniteSets, TLC

\* ------------------------------------------------------------------ bounds
MaxGraphs == 2      \* graphs in a batch
MaxNodes == 3       \* nodes in a batch
MaxCalls == 2       \* forward calls made by the training loop

\* ------------------------------------------------------- the caller's data
\* loss_weight values: negative, zero, one (the default) and a larger weight.
LossWeights == {-1, 0, 1, 2}

\* Values of a mutual-information estimate: the learned estimators return
\* scores of either sign.
Scores == {-1, 0, 1}

\* node2graph arrays of a batch of n non-empty graphs: node i belongs to
\* graph node2graph[i], graphs are laid out one after the other.
NodeToGraph(n) ==
    { s \in UNION { [1..v -> 0..(n - 1)] : v \in n..MaxNodes } :
        /\ \A i \in 1..(Len(s) - 1) : s[i] <= s[i + 1]
        /\ \A g \in 0..(n - 1) : \E i \in 1..Len(s) : s[i] = g }

\* A graph batch: n graphs, |V| = Len(node2graph) nodes.  input is the
\* per-node attribute MultiviewContrast attaches (row i = feature of the
\* node the row came from); trail lists the augmentations applied to it.
Batches ==
    UNION { { [node2graph |-> s, batch_size |-> n, input |-> <<>>, trail |-> <<>>] :
                s \in NodeToGraph(n) } : n \in 1..MaxGraphs }

num_node(g) == Len(g.node2graph)

\* The input node representations of a batch: one row per node.
InputOf(g) == [i \in 1..num_node(g) |-> i]

NullGraph == [node2graph |-> <<>>, batch_size |-> 0, input |-> <<>>, trail |-> <<"null">>]
NullTensor == [rows |-> 0, by |-> "none", of |-> <<>>, via |-> <<"null">>]
NullOutput == [node_feature |-> NullTensor, graph_feature |-> NullTensor]

\* ------------------------------------------------------------ collaborators
\* model(graph, input) -> {node_feature, graph_feature}: one row per node
\* and one row per graph of the batch it is given.
Encoder(who, g, inp) ==
    [node_feature  |-> [rows |-> num_node(g), by |-> who, of |-> inp, via |-> g.trail],
     graph_feature |-> [rows |-> g.batch_size, by |-> who, of |-> inp, via |-> g.trail]]

\* Positions kept by a cropping function.
Kept(f, g) ==
    IF f = "SubsequenceNode"
    THEN { i \in 1..num_node(g) : i = 1 \/ g.node2graph[i] # g.node2graph[i - 1] }
    ELSE 1..num_node(g)

RECURSIVE Select(_, _, _)
Select(s, keep, i) ==
    IF i > Len(s) THEN <<>>
    ELSE (IF i \in keep THEN <<s[i]>> ELSE <<>>) \o Select(s, keep, i + 1)

\* crop_func(graph) -> graph': a structural subsample.  IdentityNode keeps
\* every node; SubsequenceNode keeps the first node of every graph.
Crop(f, g) ==
    [node2graph |-> Select(g.node2graph, Kept(f, g), 1),
     batch_size |-> g.batch_size,
     input      |-> Select(g.input, Kept(f, g), 1),
     trail      |-> Append(g.trail, f)]

\* noise_func(graph) -> graph': a perturbation that keeps the nodes.
Noise(f, g) == [g EXCEPT !.trail = Append(g.trail, f)]

CropFuncLists == { <<>>, <<"IdentityNode">>, <<"SubsequenceNode">>,
                   <<"IdentityNode", "SubsequenceNode">> }
NoiseFuncLists == { <<>>, <<"IdentityNode">>, <<"IdentityNode", "RandomEdgeMask">> }

\* random.sample(population, 1)[0]: the elements it may return.
Sample(population) == { population[i] : i \in 1..Len(population) }

\* -------------------------------------------------------------------- state
VARIABLES
    kind,                \* class of the module object
    separate_model,      \* InfoGraph.separate_model
    loss_weight,         \* InfoGraph.loss_weight
    crop_funcs,          \* MultiviewContrast.crop_funcs
    noise_funcs,         \* MultiviewContrast.noise_funcs
    all_loss,            \* the caller's accumulator tensor
    metric,              \* the caller's metric dict
    calls,               \* forward calls made so far
    pc,                  \* position in forward
    graph,               \* argument graph
    loss_given,          \* all_loss is not None
    metric_given,        \* metric is not None
    output,              \* InfoGraph: output
    unsupervised_output, \* InfoGraph: unsupervised_output
    pair_index,          \* InfoGraph: pair_index
    mutual_info,         \* local mutual_info
    gcopy,               \* MultiviewContrast: graph after copy.copy
    crop_func,           \* MultiviewContrast: crop_func1, crop_func2
    noise_func,          \* MultiviewContrast: noise_func1, noise_func2
    graph_view,          \* MultiviewContrast: graph1, graph2
    output_view,         \* MultiviewContrast: output1, output2
    ret,                 \* the value forward returned
    trace,               \* what this call did so far, in order
    terms,               \* the scores this call computed, in order
    loss_before,         \* the accumulator when this call started
    metric_before,       \* the metric dict when this call started
    score_total          \* sum of the scores computed by calls given a metric dict

\* trace, terms, loss_before, metric_before and score_total are history
\* variables: they record what a call did and are read by no action's guard.
self == <<kind, separate_model, loss_weight, crop_funcs, noise_funcs>>
caller == <<all_loss, metric>>
args == <<graph, loss_given, metric_given>>
ig_locals == <<output, unsupervised_output, pair_index>>
mv_locals == <<gcopy, crop_func, noise_func, graph_view, output_view>>
ghost == <<loss_before, metric_before, score_total>>
vars == <<self, caller, calls, pc, args, ig_locals, mutual_info, mv_locals, ret,
          trace, terms, ghost>>

\* ------------------------------------------------------------- dictionaries
EmptyDict == [k \in {} |-> 0]

\* d[k] = v on a dict.
SetItem(d, k, v) == [j \in (DOMAIN d) \cup {k} |-> IF j = k THEN v ELSE d[j]]

Distillation == "distillation mutual information"
GraphNode == "graph-node mutual information"
Multiview == "multiview mutual information"

\* ----------------------------------------------------------- construction
\* InfoGraph.__init__ / MultiviewContrast.__init__ followed by the training
\* loop creating its accumulator and its metric dict.
Init ==
    /\ kind \in {"InfoGraph", "MultiviewContrast"}
    /\ IF kind = "InfoGraph"
       THEN /\ separate_model \in BOOLEAN
            /\ loss_weight \in LossWeights
            /\ crop_funcs = <<>>
            /\ noise_funcs = <<>>
       ELSE /\ separate_model = FALSE
            /\ loss_weight = 1
            /\ crop_funcs \in CropFuncLists
            /\ noise_funcs \in NoiseFuncLists
    /\ all_loss = 0
    /\ metric = EmptyDict
    /\ calls = 0
    /\ pc = "idle"
    /\ graph = NullGraph
    /\ loss_given = FALSE
    /\ metric_given = FALSE
    /\ output = NullOutput
    /\ unsupervised_output = NullOutput
    /\ pair_index = <<>>
    /\ mutual_info = 0
    /\ gcopy = NullGraph
    /\ crop_func = <<"none", "none">>
    /\ noise_func = <<"none", "none">>
    /\ graph_view = <<NullGraph, NullGraph>>
    /\ output_view = <<NullOutput, NullOutput>>
    /\ ret = NullOutput
    /\ trace = <<>>
    /\ terms = <<>>
    /\ loss_before = 0
    /\ metric_before = EmptyDict
    /\ score_total = 0

\* The training loop calls forward(graph, input, all_loss, metric); all_loss
\* and metric are optional.  A call starts only when the previous one has
\* returned or raised.
Call ==
    /\ pc \in {"idle", "done", "raised"}
    /\ calls < MaxCalls
    /\ calls' = calls + 1
    /\ graph' \in Batches
    /\ loss_given' \in BOOLEAN
    /\ metric_given' \in BOOLEAN
    /\ pc' = IF kind = "InfoGraph" THEN "ig_model" ELSE "mv_copy"
    /\ output' = NullOutput
    /\ unsupervised_output' = NullOutput
    /\ pair_index' = <<>>
    /\ mutual_info' = 0
    /\ gcopy' = NullGraph
    /\ crop_func' = <<"none", "none">>
    /\ noise_func' = <<"none", "none">>
    /\ graph_view' = <<NullGraph, NullGraph>>
    /\ output_view' = <<NullOutput, NullOutput>>
    /\ ret' = NullOutput
    /\ trace' = <<>>
    /\ terms' = <<>>
    /\ loss_before' = all_loss
    /\ metric_before' = metric
    /\ UNCHANGED <<self, caller, score_total>>

\* ------------------------------------------------------- InfoGraph.forward
\* self.unsupervised_model: a deep copy of the encoder when separate_model,
\* the encoder itself otherwise.
unsupervised_model == IF separate_model THEN "unsupervised_model" ELSE "model"

\* IG_Model followed by the separate-encoder branch whatever separate_model is.
IG_Model_IgnoresFlag ==
    /\ pc = "ig_model"
    /\ output' = Encoder("model", graph, InputOf(graph))
    /\ trace' = Append(trace, <<"call", "model">>)
    /\ pc' = IF loss_given
             THEN "ig_unsupervised"
             ELSE "ig_return"
    /\ UNCHANGED <<self, caller, calls, args, unsupervised_output, pair_index,
                   mutual_info, mv_locals, ret, terms, ghost>>

\* output = self.model(graph, input); if all_loss is not None: ...
IG_Model ==
    /\ pc = "ig_model"
    /\ output' = Encoder("model", graph, InputOf(graph))
    /\ trace' = Append(trace, <<"call", "model">>)
    /\ pc' = IF loss_given
             THEN (IF separate_model THEN "ig_unsupervised" ELSE "ig_alias")
             ELSE "ig_return"
    /\ UNCHANGED <<self, caller, calls, args, unsupervised_output, pair_index,
                   mutual_info, mv_locals, ret, terms, ghost>>

\* unsupervised_output = self.unsupervised_model(graph, input)
IG_Unsupervised ==
    /\ pc = "ig_unsupervised"
    /\ unsupervised_output' = Encoder(unsupervised_model, graph, InputOf(graph))
    /\ trace' = Append(trace, <<"call", unsupervised_model>>)
    /\ pc' = "ig_transfer_mi"
    /\ UNCHANGED <<self, caller, calls, args, output, pair_index,
                   mutual_info, mv_locals, ret, terms, ghost>>

\* mutual_info = self.transfer_mi(output["graph_feature"],
\*                                unsupervised_output["graph_feature"])
IG_TransferMI ==
    /\ pc = "ig_transfer_mi"
    /\ \E s \in Scores :
         /\ mutual_info' = s
         /\ terms' = Append(terms, s)
         /\ score_total' = IF metric_given THEN score_total + s ELSE score_total
    /\ trace' = Append(trace, <<"call", "transfer_mi">>)
    /\ pc' = "ig_metric_distillation"
    /\ UNCHANGED <<self, caller, calls, args, ig_locals, mv_locals, ret,
                   loss_before, metric_before>>

\* metric["distillation mutual information"] = mutual_info
\* (TypeError when metric is None)
IG_MetricDistillation ==
    /\ pc = "ig_metric_distillation"
    /\ IF metric_given
       THEN /\ metric' = SetItem(metric, Distillation, mutual_info)
            /\ trace' = Append(trace, <<"setitem", Distillation>>)
            /\ pc' = "ig_sub_distillation"
       ELSE /\ metric' = metric
            /\ trace' = Append(trace, <<"raise", "TypeError">>)
            /\ pc' = "raised"
    /\ UNCHANGED <<self, all_loss, calls, args, ig_locals, mutual_info,
                   mv_locals, ret, terms, ghost>>

\* IG_SubDistillation with the weight forgotten: "all_loss -= mutual_info".
IG_SubDistillation_Unweighted ==
    /\ pc = "ig_sub_distillation"
    /\ IF loss_weight > 0
       THEN /\ all_loss' = all_loss - mutual_info
            /\ trace' = Append(trace, <<"isub", Distillation>>)
       ELSE /\ all_loss' = all_loss
            /\ trace' = trace
    /\ pc' = "ig_pair_index"
    /\ UNCHANGED <<self, metric, calls, args, ig_locals, mutual_info,
                   mv_locals, ret, terms, ghost>>

\* if self.loss_weight > 0: all_loss -= mutual_info * self.loss_weight
IG_SubDistillation ==
    /\ pc = "ig_sub_distillation"
    /\ IF loss_weight > 0
       THEN /\ all_loss' = all_loss - mutual_info * loss_weight
            /\ trace' = Append(trace, <<"isub", Distillation>>)
       ELSE /\ all_loss' = all_loss
            /\ trace' = trace
    /\ pc' = "ig_pair_index"
    /\ UNCHANGED <<self, metric, calls, args, ig_locals, mutual_info,
                   mv_locals, ret, terms, ghost>>

\* else: unsupervised_output = output
IG_Alias ==
    /\ pc = "ig_alias"
    /\ unsupervised_output' = output
    /\ pc' = "ig_pair_index"
    /\ UNCHANGED <<self, caller, calls, args, output, pair_index, mutual_info,
                   mv_locals, ret, trace, terms, ghost>>

\* graph_index = graph.node2graph; node_index = torch.arange(graph.num_node)
\* pair_index = torch.stack([graph_index, node_index], dim=-1)
IG_PairIndex ==
    /\ pc = "ig_pair_index"
    /\ pair_index' = [i \in 1..num_node(graph) |-> <<graph.node2graph[i], i - 1>>]
    /\ pc' = "ig_unsupervised_mi"
    /\ UNCHANGED <<self, caller, calls, args, output, unsupervised_output,
                   mutual_info, mv_locals, ret, trace, terms, ghost>>

\* mutual_info = self.unsupervised_mi(unsupervised_output["graph_feature"],
\*                                    unsupervised_output["node_feature"], pair_index)
IG_UnsupervisedMI ==
    /\ pc = "ig_unsupervised_mi"
    /\ \E s \in Scores :
         /\ mutual_info' = s
         /\ terms' = Append(terms, s)
         /\ score_total' = IF metric_given THEN score_total + s ELSE score_total
    /\ trace' = Append(trace, <<"call", "unsupervised_mi">>)
    /\ pc' = "ig_metric_graph_node"
    /\ UNCHANGED <<self, caller, calls, args, ig_locals, mv_locals, ret,
                   loss_before, metric_before>>

\* metric["graph-node mutual information"] = mutual_info
\* (TypeError when metric is None)
IG_MetricGraphNode ==
    /\ pc = "ig_metric_graph_node"
    /\ IF metric_given
       THEN /\ metric' = SetItem(metric, GraphNode, mutual_info)
            /\ trace' = Append(trace, <<"setitem", GraphNode>>)
            /\ pc' = "ig_sub_graph_node"
       ELSE /\ metric' = metric
            /\ trace' = Append(trace, <<"raise", "TypeError">>)
            /\ pc' = "raised"
    /\ UNCHANGED <<self, all_loss, calls, args, ig_locals, mutual_info,
                   mv_locals, ret, terms, ghost>>

\* IG_SubGraphNode with the gate written "if self.loss_weight != 0": a
\* negative weight then reaches the accumulator.
IG_SubGraphNode_NonzeroGate ==
    /\ pc = "ig_sub_graph_node"
    /\ IF loss_weight # 0
       THEN /\ all_loss' = all_loss - mutual_info * loss_weight
            /\ trace' = Append(trace, <<"isub", GraphNode>>)
       ELSE /\ all_loss' = all_loss
            /\ trace' = trace
    /\ pc' = "ig_return"
    /\ UNCHANGED <<self, metric, calls, args, ig_locals, mutual_info,
                   mv_locals, ret, terms, ghost>>

\* if self.loss_weight > 0: all_loss -= mutual_info * self.loss_weight
IG_SubGraphNode ==
    /\ pc = "ig_sub_graph_node"
    /\ IF loss_weight > 0
       THEN /\ all_loss' = all_loss - mutual_info * loss_weight
            /\ trace' = Append(trace, <<"isub", GraphNode>>)
       ELSE /\ all_loss' = all_loss
            /\ trace' = trace
    /\ pc' = "ig_return"
    /\ UNCHANGED <<self, metric, calls, args, ig_locals, mutual_info,
                   mv_locals, ret, terms, ghost>>

\* IG_Return returning the unsupervised encoder's output: "return unsupervised_output".
IG_Return_Unsupervised ==
    /\ pc = "ig_return"
    /\ ret' = unsupervised_output
    /\ pc' = "done"
    /\ UNCHANGED <<self, caller, calls, args, ig_locals, mutual_info,
                   mv_locals, trace, terms, ghost>>

\* return output
IG_Return ==
    /\ pc = "ig_return"
    /\ ret' = output
    /\ pc' = "done"
    /\ UNCHANGED <<self, caller, calls, args, ig_locals, mutual_info,
                   mv_locals, trace, terms, ghost>>

InfoGraph_forward ==
    \/ IG_Model
    \/ IG_Unsupervised
    \/ IG_TransferMI
    \/ IG_MetricDistillation
    \/ IG_SubDistillation
    \/ IG_Alias
    \/ IG_PairIndex
    \/ IG_UnsupervisedMI
    \/ IG_MetricGraphNode
    \/ IG_SubGraphNode
    \/ IG_Return

\* ----------------------------------------------- MultiviewContrast.forward
SampleAt == <<"mv_sample1", "mv_sample2">>
CropAt == <<"mv_crop1", "mv_crop2">>
NoiseAt == <<"mv_noise1", "mv_noise2">>
EncodeAt == <<"mv_encode1", "mv_encode2">>
ViewName == <<"1", "2">>

\* graph = copy.copy(graph); with graph.residue(): graph.input = input
MV_Copy ==
    /\ pc = "mv_copy"
    /\ gcopy' = [graph EXCEPT !.input = InputOf(graph)]
    /\ trace' = Append(trace, <<"copy", "graph">>)
    /\ pc' = SampleAt[1]
    /\ UNCHANGED <<self, caller, calls, args, ig_locals, mutual_info, crop_func,
                   noise_func, graph_view, output_view, ret, terms, ghost>>

\* MV_Sample falling back to the identity when a list is empty instead of
\* leaving the failure to random.sample.
MV_Sample_Default(v) ==
    /\ pc = SampleAt[v]
    /\ \E c \in (IF crop_funcs = <<>> THEN {"IdentityNode"} ELSE Sample(crop_funcs)),
          n \in (IF noise_funcs = <<>> THEN {"IdentityNode"} ELSE Sample(noise_funcs)) :
         /\ crop_func' = [crop_func EXCEPT ![v] = c]
         /\ noise_func' = [noise_func EXCEPT ![v] = n]
    /\ trace' = Append(trace, <<"sample", ViewName[v]>>)
    /\ pc' = CropAt[v]
    /\ UNCHANGED <<self, caller, calls, args, ig_locals, mutual_info, gcopy,
                   graph_view, output_view, ret, terms, ghost>>

\* crop_func, noise_func = random.sample(self.crop_funcs, 1)[0],
\*                         random.sample(self.noise_funcs, 1)[0]
MV_Sample(v) ==
    /\ pc = SampleAt[v]
    /\ crop_funcs # <<>>
    /\ noise_funcs # <<>>
    /\ \E c \in Sample(crop_funcs), n \in Sample(noise_funcs) :
         /\ crop_func' = [crop_func EXCEPT ![v] = c]
         /\ noise_func' = [noise_func EXCEPT ![v] = n]
    /\ trace' = Append(trace, <<"sample", ViewName[v]>>)
    /\ pc' = CropAt[v]
    /\ UNCHANGED <<self, caller, calls, args, ig_locals, mutual_info, gcopy,
                   graph_view, output_view, ret, terms, ghost>>

\* random.sample of an empty list raises ValueError
MV_SampleFail(v) ==
    /\ pc = SampleAt[v]
    /\ ~(crop_funcs # <<>> /\ noise_funcs # <<>>)
    /\ trace' = Append(trace, <<"raise", "ValueError">>)
    /\ pc' = "raised"
    /\ UNCHANGED <<self, caller, calls, args, ig_locals, mutual_info, mv_locals,
                   ret, terms, ghost>>

\* MV_Crop cropping view 2 out of view 1: "graph2 = crop_func2(graph1)".
MV_Crop_Chained(v) ==
    /\ pc = CropAt[v]
    /\ graph_view' = [graph_view EXCEPT ![v] = Crop(crop_func[v], IF v = 1 THEN gcopy ELSE graph_view[1])]
    /\ trace' = Append(trace, <<"crop", ViewName[v]>>)
    /\ pc' = NoiseAt[v]
    /\ UNCHANGED <<self, caller, calls, args, ig_locals, mutual_info, gcopy,
                   crop_func, noise_func, output_view, ret, terms, ghost>>

\* graph1 = crop_func1(graph)  /  graph2 = crop_func2(graph)
MV_Crop(v) ==
    /\ pc = CropAt[v]
    /\ graph_view' = [graph_view EXCEPT ![v] = Crop(crop_func[v], gcopy)]
    /\ trace' = Append(trace, <<"crop", ViewName[v]>>)
    /\ pc' = NoiseAt[v]
    /\ UNCHANGED <<self, caller, calls, args, ig_locals, mutual_info, gcopy,
                   crop_func, noise_func, output_view, ret, terms, ghost>>

\* graph1 = noise_func1(graph1)  /  graph2 = noise_func2(graph2)
MV_Noise(v) ==
    /\ pc = NoiseAt[v]
    /\ graph_view' = [graph_view EXCEPT ![v] = Noise(noise_func[v], graph_view[v])]
    /\ trace' = Append(trace, <<"noise", ViewName[v]>>)
    /\ pc' = EncodeAt[v]
    /\ UNCHANGED <<self, caller, calls, args, ig_locals, mutual_info, gcopy,
                   crop_func, noise_func, output_view, ret, terms, ghost>>

\* MV_Encode followed by the loss block whether or not all_loss is given.
MV_Encode_AlwaysLoss(v) ==
    /\ pc = EncodeAt[v]
    /\ output_view' = [output_view EXCEPT
                         ![v] = Encoder("model", graph_view[v], graph_view[v].input)]
    /\ trace' = Append(trace, <<"call", "model">>)
    /\ pc' = IF v = 1 THEN SampleAt[2]
             ELSE "mv_mutual_info"
    /\ UNCHANGED <<self, caller, calls, args, ig_locals, mutual_info, gcopy,
                   crop_func, noise_func, graph_view, ret, terms, ghost>>

\* output1 = self.model(graph1, graph1.input)  /  output2 = ...
MV_Encode(v) ==
    /\ pc = EncodeAt[v]
    /\ output_view' = [output_view EXCEPT
                         ![v] = Encoder("model", graph_view[v], graph_view[v].input)]
    /\ trace' = Append(trace, <<"call", "model">>)
    /\ pc' = IF v = 1 THEN SampleAt[2]
             ELSE IF loss_given THEN "mv_mutual_info" ELSE "mv_return"
    /\ UNCHANGED <<self, caller, calls, args, ig_locals, mutual_info, gcopy,
                   crop_func, noise_func, graph_view, ret, terms, ghost>>

\* The values (score[is_positive] - score.logsumexp(dim=-1)).mean() can take
\* for an n x n score matrix: a row of one entry is its own log-sum-exp, a
\* longer row's log-sum-exp exceeds each of its entries.
InfoNCE(n) == IF n = 1 THEN {0} ELSE {-2, -1}

\* x = self.mlp(output1["graph_feature"]); y = self.mlp(output2["graph_feature"])
\* score = F.cosine_similarity(x.unsqueeze(1), y.unsqueeze(0), dim=-1) / self.tau
\* is_positive = torch.diag(torch.ones(len(x), dtype=torch.bool))
\*   (both views keep the batch's graphs, so score is square; self.device is
\*   the device property the package gives every nn.Module)
\* mutual_info = (score[is_positive] - score.logsumexp(dim=-1)).mean()
MV_MutualInfo ==
    /\ pc = "mv_mutual_info"
    /\ \E s \in InfoNCE(output_view[1].graph_feature.rows) :
         /\ mutual_info' = s
         /\ terms' = Append(terms, s)
    /\ trace' = trace \o << <<"call", "mlp">>, <<"call", "mlp">>, <<"call", "infonce">> >>
    /\ pc' = "mv_metric"
    /\ UNCHANGED <<self, caller, calls, args, ig_locals, mv_locals, ret, ghost>>

\* MV_Metric skipping the write when no dict is given: "if metric is not None:
\* metric[...] = mutual_info", then going on to the subtraction.
MV_Metric_Skipped ==
    /\ pc = "mv_metric"
    /\ IF metric_given
       THEN /\ metric' = SetItem(metric, Multiview, mutual_info)
            /\ trace' = Append(trace, <<"setitem", Multiview>>)
            /\ pc' = "mv_sub"
       ELSE /\ metric' = metric
            /\ trace' = trace
            /\ pc' = "mv_sub"
    /\ UNCHANGED <<self, all_loss, calls, args, ig_locals, mutual_info,
                   mv_locals, ret, terms, ghost>>

\* metric["multiview mutual information"] = mutual_info
\* (TypeError when metric is None)
MV_Metric ==
    /\ pc = "mv_metric"
    /\ IF metric_given
       THEN /\ metric' = SetItem(metric, Multiview, mutual_info)
            /\ trace' = Append(trace, <<"setitem", Multiview>>)
            /\ pc' = "mv_sub"
       ELSE /\ metric' = metric
            /\ trace' = Append(trace, <<"raise", "TypeError">>)
            /\ pc' = "raised"
    /\ UNCHANGED <<self, all_loss, calls, args, ig_locals, mutual_info,
                   mv_locals, ret, terms, ghost>>

\* MV_Sub gated on the sign of the value: "if mutual_info > 0: all_loss -= mutual_info".
MV_Sub_PositiveOnly ==
    /\ pc = "mv_sub"
    /\ IF mutual_info > 0
       THEN /\ all_loss' = all_loss - mutual_info
            /\ trace' = Append(trace, <<"isub", Multiview>>)
       ELSE /\ all_loss' = all_loss
            /\ trace' = trace
    /\ pc' = "mv_return"
    /\ UNCHANGED <<self, metric, calls, args, ig_locals, mutual_info,
                   mv_locals, ret, terms, ghost>>

\* all_loss -= mutual_info
MV_Sub ==
    /\ pc = "mv_sub"
    /\ all_loss' = all_loss - mutual_info
    /\ trace' = Append(trace, <<"isub", Multiview>>)
    /\ pc' = "mv_return"
    /\ UNCHANGED <<self, metric, calls, args, ig_locals, mutual_info,
                   mv_locals, ret, terms, ghost>>

\* output = {"node_feature1": ..., "graph_feature1": ...,
\*           "node_feature2": ..., "graph_feature2": ...}; return output
MV_Return ==
    /\ pc = "mv_return"
    /\ ret' = [node_feature1  |-> output_view[1].node_feature,
               graph_feature1 |-> output_view[1].graph_feature,
               node_feature2  |-> output_view[2].node_feature,
               graph_feature2 |-> output_view[2].graph_feature]
    /\ pc' = "done"
    /\ UNCHANGED <<self, caller, calls, args, ig_locals, mutual_info,
                   mv_locals, trace, terms, ghost>>

MultiviewContrast_forward ==
    \/ MV_Copy
    \/ \E v \in 1..2 : MV_Sample(v)
    \/ \E v \in 1..2 : MV_SampleFail(v)
    \/ \E v \in 1..2 : MV_Crop(v)
    \/ \E v \in 1..2 : MV_Noise(v)
    \/ \E v \in 1..2 : MV_Encode(v)
    \/ MV_MutualInfo
    \/ MV_Metric
    \/ MV_Sub
    \/ MV_Return

Next == Call \/ InfoGraph_forward \/ MultiviewContrast_forward

Spec == Init /\ [][Next]_vars

\* ------------------------------------------------------------ observations
RECURSIVE SumSeq(_)
SumSeq(s) == IF s = <<>> THEN 0 ELSE Head(s) + SumSeq(Tail(s))

\* How often this call did <<op, what>>.
Count(op, what) == Cardinality({ i \in 1..Len(trace) : trace[i] = <<op, what>> })

\* What this call did of kind op.
Did(op) == { trace[i][2] : i \in { j \in 1..Len(trace) : trace[j][1] = op } }

\* The keys this call wrote in the metric dict, and the terms it subtracted.
Written == Did("setitem")
Subtracted == Did("isub")

Finished == pc = "done"
InfoGraphCall == kind = "InfoGraph" /\ pc # "idle"
MultiviewCall == kind = "MultiviewContrast" /\ pc # "idle"

\* ---------------------------------------------------------------------- C1
\* C1 as stated: an InfoGraph call given an accumulator and a loss weight
\* <= 0 leaves the accumulator unchanged and writes both metric entries.
C1_BothEntriesAlways ==
    (InfoGraphCall /\ Finished /\ loss_given /\ loss_weight <= 0) =>
        /\ all_loss = loss_before
        /\ Written = {Distillation, GraphNode}

\* C1 amended: with a loss weight <= 0 the accumulator is never changed
\* during the call, and a call that returns has computed and recorded
\* "graph-node mutual information" and, exactly when a separate encoder is
\* configured, "distillation mutual information" before it.
C1_WeightNotPositive ==
    (InfoGraphCall /\ loss_weight <= 0) =>
        /\ all_loss = loss_before
        /\ Subtracted = {}
        /\ (Finished /\ loss_given) =>
              /\ Written = (IF separate_model THEN {Distillation} ELSE {}) \cup {GraphNode}
              /\ metric[GraphNode] = terms[Len(terms)]
              /\ Count("call", "unsupervised_mi") = 1
              /\ separate_model =>
                    /\ metric[Distillation] = terms[1]
                    /\ Count("call", "transfer_mi") = 1
                    /\ Len(terms) = 2

C1_Witness ==
    /\ InfoGraphCall /\ Finished /\ loss_given
    /\ loss_weight < 0
    /\ separate_model
    /\ terms = <<1, -1>>
    /\ metric[Distillation] = 1
    /\ metric[GraphNode] = -1
    /\ all_loss = loss_before

\* ---------------------------------------------------------------------- C2
\* C2 as stated: with a loss weight > 0 every term that is subtracted makes
\* the accumulator strictly smaller, by score x weight.
C2_StrictDecrease ==
    [][(kind = "InfoGraph" /\ loss_weight > 0
          /\ pc \in {"ig_sub_distillation", "ig_sub_graph_node"} /\ pc' # pc)
        => (all_loss' = all_loss - mutual_info * loss_weight /\ all_loss' < all_loss)]_vars

\* C2 amended: with a loss weight > 0 and a metric dict, every computed
\* term is subtracted as score x weight (a decrease only for a positive
\* score), in order: at every point of a call the accumulator is its value
\* at the start minus weight x the sum of the terms subtracted so far, a
\* call that returns has subtracted all its terms, and between calls the
\* accumulator is its initial value minus weight x the sum of all scores.
C2_Subtracts ==
    (kind = "InfoGraph" /\ loss_weight > 0) =>
        /\ pc # "idle" =>
              all_loss = loss_before
                         - loss_weight * SumSeq(SubSeq(terms, 1, Cardinality(Subtracted)))
        /\ (Finished /\ loss_given) =>
              /\ Len(terms) = (IF separate_model THEN 2 ELSE 1)
              /\ Cardinality(Subtracted) = Len(terms)
              /\ all_loss = loss_before - loss_weight * SumSeq(terms)
        /\ pc \in {"idle", "done", "raised"} =>
              all_loss = 0 - loss_weight * score_total

C2_Witness ==
    /\ InfoGraphCall /\ Finished /\ loss_given
    /\ loss_weight = 2
    /\ separate_model
    /\ calls = 2
    /\ terms = <<-1, 0>>
    /\ loss_before = -2
    /\ all_loss = 0

\* ---------------------------------------------------------------------- C3
\* C3: an InfoGraph without a separate encoder never has the key
\* "distillation mutual information" in the metric dict, writes only
\* "graph-node mutual information", and calls no encoder besides the
\* primary one (once per call) and never the transfer estimator.
C3_NoDistillation ==
    (kind = "InfoGraph" /\ ~separate_model) =>
        /\ Distillation \notin DOMAIN metric
        /\ DOMAIN metric \subseteq {GraphNode}
        /\ Written \subseteq {GraphNode}
        /\ Did("call") \subseteq {"model", "unsupervised_mi"}
        /\ Count("call", "model") <= 1

C3_Witness ==
    /\ InfoGraphCall /\ Finished /\ loss_given
    /\ ~separate_model
    /\ calls = 2
    /\ DOMAIN metric_before = {GraphNode}
    /\ DOMAIN metric = {GraphNode}
    /\ loss_weight > 0
    /\ all_loss # loss_before

\* ---------------------------------------------------------------------- C4
\* C4: a call of InfoGraph.forward that returns returns the output of the
\* primary encoder on (graph, input), and has called that encoder once.
C4_ReturnsPrimaryOutput ==
    InfoGraphCall =>
        /\ Count("call", "model") <= 1
        /\ Finished =>
              /\ ret = Encoder("model", graph, InputOf(graph))
              /\ ret = output
              /\ Count("call", "model") = 1

C4_Witness ==
    /\ InfoGraphCall /\ Finished /\ loss_given
    /\ separate_model
    /\ unsupervised_output # output
    /\ unsupervised_output.graph_feature.by = "unsupervised_model"
    /\ ret.graph_feature.by = "model"

\* ---------------------------------------------------------------------- C5
\* C5: a MultiviewContrast call given an accumulator that returns has
\* recorded its InfoNCE value under "multiview mutual information" and has
\* subtracted it from the accumulator once, whatever the value.
C5_SubtractsOnce ==
    (MultiviewCall /\ Finished /\ loss_given) =>
        /\ terms = <<mutual_info>>
        /\ Written = {Multiview}
        /\ metric[Multiview] = mutual_info
        /\ Count("isub", Multiview) = 1
        /\ all_loss = loss_before - mutual_info

C5_Witness ==
    /\ MultiviewCall /\ Finished /\ loss_given
    /\ mutual_info < 0
    /\ all_loss > loss_before
    /\ loss_before > 0

\* ---------------------------------------------------------------------- C6
\* C6: a MultiviewContrast with an empty crop_funcs or noise_funcs list
\* raises at the first sampling, before any encoder call, samples only
\* once, and leaves the accumulator and the metric dict unchanged.
C6_EmptyListRaises ==
    (MultiviewCall /\ (crop_funcs = <<>> \/ noise_funcs = <<>>)) =>
        /\ pc \in {"mv_copy", "mv_sample1", "raised"}
        /\ Count("call", "model") = 0
        /\ Did("sample") = {}
        /\ pc = "raised" => trace = << <<"copy", "graph">>, <<"raise", "ValueError">> >>
        /\ all_loss = loss_before
        /\ metric = metric_before
        /\ ret = NullOutput

C6_Witness ==
    /\ MultiviewCall /\ pc = "raised"
    /\ crop_funcs # <<>>
    /\ noise_funcs = <<>>
    /\ loss_given /\ metric_given
    /\ calls = 2

\* ---------------------------------------------------------------------- C7
\* C7: whatever forward returns for a batch of n graphs and V nodes has V
\* rows in every node feature tensor and n rows in every graph feature
\* tensor, in both models and for every crop and noise function.
C7_RowsOfBatch ==
    Finished =>
        IF kind = "InfoGraph"
        THEN /\ ret.node_feature.rows = num_node(graph)
             /\ ret.graph_feature.rows = graph.batch_size
        ELSE /\ ret.node_feature1.rows = num_node(graph)
             /\ ret.node_feature2.rows = num_node(graph)
             /\ ret.graph_feature1.rows = graph.batch_size
             /\ ret.graph_feature2.rows = graph.batch_size

\* ---------------------------------------------------------------------- C8
ViewSteps(v) ==
    << <<"sample", ViewName[v]>>, <<"crop", ViewName[v]>>, <<"noise", ViewName[v]>>,
       <<"call", "model">> >>
BothViews == << <<"copy", "graph">> >> \o ViewSteps(1) \o ViewSteps(2)

\* The graph of view v as forward should build it from the argument graph.
ViewOf(v) ==
    Noise(noise_func[v], Crop(crop_func[v], [graph EXCEPT !.input = InputOf(graph)]))

\* C8: MultiviewContrast.forward samples, crops the copy of the batch,
\* noises the crop and encodes the result, for view 1 and then for view 2,
\* each view from the same copy and from its own samples; the encoder is
\* called twice.
C8_ViewOrder ==
    MultiviewCall =>
        /\ \A i \in 1..Len(trace) :
              (i <= Len(BothViews) /\ trace[i][1] # "raise") => trace[i] = BothViews[i]
        /\ Count("call", "model") <= 2
        /\ \A v \in 1..2 :
              output_view[v] # NullOutput =>
                 /\ crop_func[v] \in Sample(crop_funcs)
                 /\ noise_func[v] \in Sample(noise_funcs)
                 /\ graph_view[v] = ViewOf(v)
                 /\ graph_view[v].trail = <<crop_func[v], noise_func[v]>>
                 /\ output_view[v] = Encoder("model", ViewOf(v), ViewOf(v).input)
        /\ Finished =>
              /\ SubSeq(trace, 1, Len(BothViews)) = BothViews
              /\ Count("call", "model") = 2

C8_Witness ==
    /\ MultiviewCall /\ Finished
    /\ crop_func = <<"SubsequenceNode", "IdentityNode">>
    /\ noise_func = <<"IdentityNode", "RandomEdgeMask">>
    /\ num_node(graph_view[1]) < num_node(graph_view[2])
    /\ num_node(graph_view[2]) = num_node(graph)

\* ---------------------------------------------------------------------- C9
\* C9: a call without an accumulator changes neither the metric dict nor
\* the accumulator and calls no estimator and no projector; InfoGraph then
\* only calls the primary encoder, once, and MultiviewContrast still builds
\* and encodes both views and returns the four feature entries.
C9_NoLossNoEffect ==
    (pc # "idle" /\ ~loss_given) =>
        /\ metric = metric_before
        /\ all_loss = loss_before
        /\ Written = {}
        /\ Subtracted = {}
        /\ Did("call") \subseteq {"model"}
        /\ terms = <<>>
        /\ (kind = "InfoGraph" /\ Finished) =>
              /\ trace = << <<"call", "model">> >>
              /\ ret = Encoder("model", graph, InputOf(graph))
        /\ (kind = "MultiviewContrast" /\ Finished) =>
              /\ trace = BothViews
              /\ DOMAIN ret = {"node_feature1", "graph_feature1",
                               "node_feature2", "graph_feature2"}
              /\ ret.node_feature1 = Encoder("model", ViewOf(1), ViewOf(1).input).node_feature
              /\ ret.graph_feature1 = Encoder("model", ViewOf(1), ViewOf(1).input).graph_feature
              /\ ret.node_feature2 = Encoder("model", ViewOf(2), ViewOf(2).input).node_feature
              /\ ret.graph_feature2 = Encoder("model", ViewOf(2), ViewOf(2).input).graph_feature
        /\ pc = "raised" => trace[Len(trace)] = <<"raise", "ValueError">>

C9_Witness ==
    /\ MultiviewCall /\ Finished
    /\ ~loss_given /\ metric_given
    /\ DOMAIN metric_before = {Multiview}
    /\ metric = metric_before
    /\ loss_before # 0
    /\ all_loss = loss_before

=============================================================================
